---- MODULE Spec2Model ----
(***************************************************************************)
(* A model of overrides/overrides.py: the @overrides decorator, the scan   *)
(* of the enclosing frame's bytecode that recovers the base-class names    *)
(* (_get_base_class_names), their resolution to objects (_get_base_class), *)
(* the validation of the override target (_validate_method) and the        *)
(* wrapper returned when check_at_runtime is set.                          *)
(*                                                                         *)
(* Identifiers are sequences of characters, so that str.startswith is      *)
(* computed and not looked up.  Python objects are named by strings; the   *)
(* attributes an object has are given by GetAttr, and the mutable fields of  *)
(* the method objects (the __final__ mark, __doc__, the signature) live in *)
(* the variable heap.                                                      *)
(***************************************************************************)
EXTENDS Integers, Sequences, FiniteSets, TLC

VARIABLES
    pc,               \* which step of the scenario has run
    pre,              \* the statements that precede the class statement in the frame
    bases,            \* the base-class expressions written in the class statement
    names,            \* the value returned by _get_base_class_names
    components,       \* the argument of _get_base_class
    builtins_is_dict, \* whether namespace["__builtins__"] is a dict or a module
    resolved,         \* the value returned (or the error raised) by _get_base_class
    method,           \* the decorated function: __name__, __doc__, signature, __override__
    check_signature,  \* keyword argument of overrides
    check_at_runtime, \* keyword argument of overrides
    heap,             \* the mutable fields of the method objects of the classes
    result,           \* what the decorator returned or raised
    calls,            \* number of calls of the returned callable so far
    invoked,          \* number of times the body of the real method has run
    last_call         \* outcome of the latest call of the returned callable

vars == <<pc, pre, bases, names, components, builtins_is_dict, resolved, method,
          check_signature, check_at_runtime, heap, result, calls, invoked, last_call>>

(***************************************************************************)
(* Bounds of the model.                                                    *)
(***************************************************************************)
MaxPre == 1         \* statements before the class statement
MaxBases == 2       \* base expressions in the class statement
MaxComponents == 3  \* segments of a dotted path given to _get_base_class
MaxCalls == 2       \* calls of the returned callable

SeqsUpTo(S, n) == UNION {[1..k -> S] : k \in 0..n}

(***************************************************************************)
(* Identifiers.                                                            *)
(***************************************************************************)
nA == <<"A">>
nB == <<"B">>
nC == <<"C">>
nF == <<"F">>
nP == <<"P">>
nS == <<"S">>
nV == <<"v">>
nX == <<"x">>
nPkg == <<"p", "k", "g">>
nSub == <<"s", "u", "b">>
nObject == <<"o", "b", "j", "e", "c", "t">>
nUpper == <<"u", "p", "p", "e", "r">>
nM == <<"m">>
nInit == <<"_", "_", "i", "n", "i", "t", "_", "_">>
nPriv == <<"_", "_", "p">>
nNone == <<>>

\* str.startswith("__")
StartsWithDunder(name) == Len(name) >= 2 /\ name[1] = "_" /\ name[2] = "_"

(***************************************************************************)
(* The bytecode of the frame that holds the class statement.               *)
(***************************************************************************)
\* dis.hasname, restricted to the opcodes of the model: the opcodes whose
\* argument indexes co_names.  LOAD_FAST and STORE_FAST index co_varnames
\* and LOAD_DEREF indexes the cell and free variables.
hasname ==
    {"LOAD_NAME", "LOAD_GLOBAL", "LOAD_ATTR", "LOAD_METHOD", "STORE_NAME", "IMPORT_NAME"}

Ins(op, arg) == [opname |-> op, argval |-> arg]

\* A base expression: a dotted path and the opcode that loads its first segment
\* (LOAD_NAME in a module or class body, LOAD_GLOBAL, LOAD_FAST or LOAD_DEREF in
\* a function).
BaseExpr(load, path) == [load |-> load, path |-> path]

BaseCode(b) ==
    <<Ins(b.load, b.path[1])>>
        \o [k \in 1..(Len(b.path) - 1) |-> Ins("LOAD_ATTR", b.path[k + 1])]

RECURSIVE Flatten(_)
Flatten(ss) == IF ss = <<>> THEN <<>> ELSE Head(ss) \o Flatten(Tail(ss))

\* class S(<bases>): ... as compiled: the bases are loaded between
\* LOAD_BUILD_CLASS and the CALL that runs the class body; the name S is
\* stored after the call returns (by STORE_FAST in a function; the store lies
\* after f_lasti either way).
ClassStatement(bs) ==
    <<Ins("LOAD_BUILD_CLASS", nNone), Ins("MAKE_FUNCTION", nNone)>>
        \o Flatten([k \in 1..Len(bs) |-> BaseCode(bs[k])])
        \o <<Ins("CALL", nNone), Ins("STORE_NAME", nS)>>

\* The frame three levels up from _overrides while a method of the class body
\* is being decorated: its code is the preceding statements followed by the
\* class statement, and its f_lasti is the offset of the CALL of the class body.
Frame(stmts, bs) ==
    LET code == Flatten(stmts) \o ClassStatement(bs)
    IN  [f_code |-> [k \in 1..Len(code) |->
                        [opname |-> code[k].opname, argval |-> code[k].argval,
                         offset |-> 2 * (k - 1)]],
         f_lasti |-> 2 * (Len(code) - 2)]

(***************************************************************************)
(* _get_base_class_names                                                   *)
(***************************************************************************)
Tok(t, s) == [t |-> t, s |-> s]

\* The first loop: the tokens collected from the instructions executed so far.
RECURSIVE ScanInstructions(_, _, _, _)
ScanInstructions(frame, i, extends, add_last_step) ==
    IF i > Len(frame.f_code) THEN extends
    ELSE LET instruction == frame.f_code[i] IN
         IF instruction.offset > frame.f_lasti THEN extends
         ELSE IF instruction.opname \notin hasname
              THEN ScanInstructions(frame, i + 1, extends, add_last_step)
         ELSE LET ext == IF ~add_last_step THEN <<>> ELSE extends IN
              IF instruction.opname = "LOAD_NAME"
              THEN ScanInstructions(frame, i + 1,
                                    Append(ext, Tok("name", instruction.argval)), TRUE)
              ELSE IF instruction.opname = "LOAD_ATTR"
              THEN ScanInstructions(frame, i + 1,
                                    Append(ext, Tok("attr", instruction.argval)), TRUE)
              ELSE IF instruction.opname = "LOAD_GLOBAL"
              THEN ScanInstructions(frame, i + 1,
                                    Append(ext, Tok("name", instruction.argval)), TRUE)
              ELSE ScanInstructions(frame, i + 1, ext, FALSE)

\* The second loop: the tokens grouped into dotted paths.
RECURSIVE BuildItems(_, _, _)
BuildItems(extends, items, previous_item) ==
    IF extends = <<>>
    THEN IF previous_item # <<>> THEN Append(items, previous_item) ELSE items
    ELSE LET tok == Head(extends) IN
         IF tok.t = "name"
         THEN BuildItems(Tail(extends),
                         IF previous_item # <<>> THEN Append(items, previous_item)
                                                 ELSE items,
                         <<tok.s>>)
         ELSE BuildItems(Tail(extends), items, Append(previous_item, tok.s))

GetBaseClassNames(frame) ==
    BuildItems(ScanInstructions(frame, 1, <<>>, TRUE), <<>>, <<>>)

(***************************************************************************)
(* The objects of the program under decoration.                            *)
(***************************************************************************)
Missing == "<missing>"    \* hasattr is False / the key is absent
DocNone == "<None>"       \* __doc__ is None

\* A signature: the number of required and of optional parameters after self.
Sig(req, opt) == [req |-> req, opt |-> opt]

\* getattr(o, n), or Missing when hasattr(o, n) is False.  Every object has
\* __init__ (inherited from object).  A, B, C, F and P are classes, pkg and
\* pkg.sub are modules; the methods of the classes are "B.m" and so on.
GetAttr(o, n) ==
    IF n = nInit THEN "object.__init__"
    ELSE CASE o = "B" /\ n = nM -> "B.m"
           [] o = "B" /\ n = nPriv -> "B.__p"
           [] o = "C" /\ n = nM -> "C.m"
           [] o = "F" /\ n = nM -> "F.m"
           [] o = "P" /\ n = nM -> "P.m"
           [] o = "pkg" /\ n = nB -> "B"
           [] o = "pkg" /\ n = nC -> "C"
           [] o = "pkg" /\ n = nSub -> "pkg.sub"
           [] o = "pkg.sub" /\ n = nF -> "F"
           [] OTHER -> Missing

HasAttr(o, n) == GetAttr(o, n) # Missing

\* method.__globals__: the namespace of the module that defines the class.
Globals(n) ==
    CASE n = nA -> "A"
      [] n = nB -> "B"
      [] n = nC -> "C"
      [] n = nF -> "F"
      [] n = nP -> "P"
      [] n = nPkg -> "pkg"
      [] OTHER -> Missing

\* namespace["__builtins__"]
Builtins(n) == IF n = nObject THEN "object" ELSE Missing

MethodSlots == {"B.m", "B.__p", "C.m", "F.m", "P.m", "object.__init__"}

\* The fields of the method objects as the classes were defined.
InitialHeap ==
    [s \in MethodSlots |->
        CASE s = "B.m" ->
               [final |-> FALSE, doc |-> "Bdoc", property |-> FALSE, sig |-> Sig(1, 0)]
          [] s = "B.__p" ->
               [final |-> FALSE, doc |-> DocNone, property |-> FALSE, sig |-> Sig(2, 0)]
          [] s = "C.m" ->
               [final |-> FALSE, doc |-> DocNone, property |-> FALSE, sig |-> Sig(0, 0)]
          [] s = "F.m" ->
               [final |-> TRUE, doc |-> "Fdoc", property |-> FALSE, sig |-> Sig(1, 0)]
          [] s = "P.m" ->
               [final |-> FALSE, doc |-> "Pdoc", property |-> TRUE, sig |-> Sig(0, 0)]
          [] OTHER ->
               [final |-> FALSE, doc |-> "Idoc", property |-> FALSE, sig |-> Sig(0, 0)]]

(***************************************************************************)
(* _get_base_class and _get_base_classes                                   *)
(***************************************************************************)
Errors == {"KeyError", "AttributeError"}

\* The loop over components[1:].
RECURSIVE FollowComponents(_, _)
FollowComponents(obj, rest) ==
    IF rest = <<>> THEN obj
    ELSE IF HasAttr(obj, Head(rest))
         THEN FollowComponents(GetAttr(obj, Head(rest)), Tail(rest))
         ELSE FollowComponents(obj, Tail(rest))

\* namespace[components[0]], falling back to the builtins.
LookupFirst(name, is_dict) ==
    IF Globals(name) # Missing THEN Globals(name)
    ELSE IF Builtins(name) # Missing THEN Builtins(name)
    ELSE IF is_dict THEN "KeyError" ELSE "AttributeError"

GetBaseClass_Strict(comps, is_dict) ==
    LET RECURSIVE Strict(_, _)
        Strict(obj, rest) ==
            IF rest = <<>> THEN obj
            ELSE IF HasAttr(obj, Head(rest))
                 THEN Strict(GetAttr(obj, Head(rest)), Tail(rest))
                 ELSE "AttributeError"
        first == LookupFirst(comps[1], is_dict)
    IN  IF first \in Errors THEN first ELSE Strict(first, Tail(comps))

GetBaseClass(comps, is_dict) ==
    LET first == LookupFirst(comps[1], is_dict)
    IN  IF first \in Errors THEN first ELSE FollowComponents(first, Tail(comps))

\* The list comprehension of _get_base_classes: the first error raised by
\* _get_base_class propagates, otherwise the list of the resolved objects.
GetBaseClasses(frame, is_dict) ==
    LET paths == GetBaseClassNames(frame)
        objs == [k \in 1..Len(paths) |-> GetBaseClass(paths[k], is_dict)]
        bad == {k \in 1..Len(paths) : objs[k] \in Errors}
    IN  IF bad = {} THEN [raised |-> "none", classes |-> objs]
        ELSE [raised |-> objs[CHOOSE k \in bad : \A j \in bad : k <= j],
              classes |-> <<>>]

(***************************************************************************)
(* _validate_method                                                        *)
(***************************************************************************)
Falsy(doc) == doc \in {DocNone, ""}

\* overrides.signature.ensure_signature_is_compatible: TRUE when it returns,
\* FALSE when it raises.  The override may not require more than the super
\* method requires and must accept everything the super method accepts.
EnsureSignatureIsCompatible(super_sig, sub_sig, is_static) ==
    /\ sub_sig.req <= super_sig.req
    /\ sub_sig.req + sub_sig.opt >= super_sig.req + super_sig.opt

RunsValidator_DunderBothEnds(name, chk_signature, is_property) ==
    /\ chk_signature
    /\ ~(StartsWithDunder(name) /\ Len(name) >= 4
           /\ name[Len(name) - 1] = "_" /\ name[Len(name)] = "_")
    /\ ~is_property

\* The condition of the last if statement of _validate_method.
RunsValidator(name, chk_signature, is_property) ==
    /\ chk_signature
    /\ ~StartsWithDunder(name)
    /\ ~is_property

ValidateMethod_SignatureFirst(m, super_class, chk_signature, h) ==
    LET super_method == h[GetAttr(super_class, m.name)]
        runs == RunsValidator(m.name, chk_signature, super_method.property)
        doc2 == IF Falsy(m.doc) THEN super_method.doc ELSE m.doc
    IN  IF runs /\ ~EnsureSignatureIsCompatible(super_method.sig, m.sig, FALSE)
        THEN [raised |-> "TypeError: signature", doc |-> doc2, validator_called |-> TRUE]
        ELSE IF super_method.final
        THEN [raised |-> "TypeError: is finalized", doc |-> doc2,
              validator_called |-> runs]
        ELSE [raised |-> "none", doc |-> doc2, validator_called |-> runs]

\* _validate_method(method, super_class, check_signature) against the heap h:
\* what it raises, the __doc__ it leaves on the method, and whether it called
\* the signature validator.
ValidateMethod(m, super_class, chk_signature, h) ==
    LET super_method == h[GetAttr(super_class, m.name)]
        is_static == FALSE
        runs == RunsValidator(m.name, chk_signature, super_method.property)
        doc2 == IF Falsy(m.doc) THEN super_method.doc ELSE m.doc
    IN  IF super_method.final
        THEN [raised |-> "TypeError: is finalized", doc |-> m.doc,
              validator_called |-> FALSE]
        ELSE IF runs /\ ~EnsureSignatureIsCompatible(super_method.sig, m.sig, is_static)
        THEN [raised |-> "TypeError: signature", doc |-> doc2, validator_called |-> TRUE]
        ELSE [raised |-> "none", doc |-> doc2, validator_called |-> runs]

(***************************************************************************)
(* _overrides                                                              *)
(***************************************************************************)
FindSuperClass_Last(classes, name) ==
    LET having == {k \in 1..Len(classes) : HasAttr(classes[k], name)}
    IN  IF having = {} THEN 0 ELSE CHOOSE k \in having : \A j \in having : j <= k

\* The for loop of _overrides: the index of the first class that has the
\* attribute, 0 when the loop ends without one.
FindSuperClass(classes, name) ==
    LET having == {k \in 1..Len(classes) : HasAttr(classes[k], name)}
    IN  IF having = {} THEN 0 ELSE CHOOSE k \in having : \A j \in having : k <= j

Outcome(status, callable, doc, super_class, validator_called, method_doc) ==
    [status |-> status, callable |-> callable, doc |-> doc,
     super_class |-> super_class, validator_called |-> validator_called,
     method_doc |-> method_doc]

\* _overrides(method, check_signature, check_at_runtime) called while the
\* frame three levels up is `frame`: the status is "returned" or the error
\* raised; callable and doc describe the returned object; method_doc is the
\* __doc__ left on the decorated method.
Overrides(m, chk_signature, chk_at_runtime, frame, is_dict, h) ==
    LET got == GetBaseClasses(frame, is_dict)
        k == FindSuperClass(got.classes, m.name)
    IN  IF got.raised # "none"
        THEN Outcome(got.raised, "none", DocNone, Missing, FALSE, m.doc)
        ELSE IF k = 0
        THEN Outcome("TypeError: No super class method found", "none", DocNone,
                     Missing, FALSE, m.doc)
        ELSE IF chk_at_runtime
        THEN \* functools.wraps copies the method's __doc__ as it is now
             Outcome("returned", "wrapper", m.doc, got.classes[k], FALSE, m.doc)
        ELSE LET v == ValidateMethod(m, got.classes[k], chk_signature, h)
             IN  IF v.raised # "none"
                 THEN Outcome(v.raised, "none", DocNone, got.classes[k],
                              v.validator_called, v.doc)
                 ELSE Outcome("returned", "method", v.doc, got.classes[k],
                              v.validator_called, v.doc)

WrapperCall_NoCheck(m, super_class, chk_signature, h) ==
    [raised |-> "none", doc |-> m.doc, ran |-> TRUE]

\* wrapper(*args, **kwargs): validate against the heap as it is now, then run
\* the method.
WrapperCall(m, super_class, chk_signature, h) ==
    LET v == ValidateMethod(m, super_class, chk_signature, h)
    IN  [raised |-> v.raised, doc |-> v.doc, ran |-> v.raised = "none"]

(***************************************************************************)
(* Inputs: the statements and base expressions of the enclosing frame, and  *)
(* the decorated method.                                                   *)
(***************************************************************************)
\* Statements of a module body.
\* x = pkg.B
StAssignAttr == <<Ins("LOAD_NAME", nPkg), Ins("LOAD_ATTR", nB), Ins("STORE_NAME", nX)>>
\* F()
StCall == <<Ins("LOAD_NAME", nF), Ins("CALL", nNone), Ins("POP_TOP", nNone)>>
\* x = "".upper
StConstAttr == <<Ins("LOAD_CONST", nNone), Ins("LOAD_ATTR", nUpper), Ins("STORE_NAME", nX)>>
\* import pkg
StImport == <<Ins("IMPORT_NAME", nPkg), Ins("STORE_NAME", nPkg)>>

\* Statements of a function body.
\* v = A
StLocalAssign == <<Ins("LOAD_GLOBAL", nA), Ins("STORE_FAST", nV)>>
\* import pkg
StLocalImport == <<Ins("IMPORT_NAME", nPkg), Ins("STORE_FAST", nPkg)>>
\* v.B()
StLocalCall ==
    <<Ins("LOAD_FAST", nV), Ins("LOAD_METHOD", nB), Ins("CALL", nNone), Ins("POP_TOP", nNone)>>

ModuleStatements == {StAssignAttr, StCall, StConstAttr, StImport}
FunctionStatements == {StLocalAssign, StLocalImport, StLocalCall}

\* Bases written at module level, all of which evaluate to a class.
ModuleBases ==
    {BaseExpr("LOAD_NAME", <<nA>>), BaseExpr("LOAD_NAME", <<nB>>),
     BaseExpr("LOAD_NAME", <<nF>>), BaseExpr("LOAD_NAME", <<nP>>),
     BaseExpr("LOAD_NAME", <<nPkg, nC>>)}

\* Bases written in a function: globals, locals and free variables.
FunctionBases ==
    {BaseExpr("LOAD_GLOBAL", <<nB>>), BaseExpr("LOAD_GLOBAL", <<nPkg, nC>>),
     BaseExpr("LOAD_FAST", <<nV>>), BaseExpr("LOAD_FAST", <<nV, nB>>),
     BaseExpr("LOAD_DEREF", <<nV>>)}

Methods ==
    [name : {nM, nInit, nPriv}, doc : {DocNone, "own"},
     sig : {Sig(1, 0), Sig(0, 0)}, override : {FALSE}]

NoMethod == [name |-> nNone, doc |-> DocNone, sig |-> Sig(0, 0), override |-> FALSE]
NoResult == Outcome("none", "none", DocNone, Missing, FALSE, DocNone)

PathNames == {nA, nB, nPkg, nSub, nF, nObject, nX}

(***************************************************************************)
(* _get_base_class_names applied to the frames of a class statement.       *)
(***************************************************************************)
InitNames ==
    /\ pc = "start"
    /\ \/ /\ pre \in SeqsUpTo(ModuleStatements, MaxPre)
          /\ bases \in SeqsUpTo(ModuleBases, MaxBases)
       \/ /\ pre \in SeqsUpTo(FunctionStatements, MaxPre)
          /\ bases \in SeqsUpTo(FunctionBases, MaxBases)
    /\ names = <<>>
    /\ components = <<>>
    /\ builtins_is_dict = TRUE
    /\ resolved = Missing
    /\ method = NoMethod
    /\ check_signature = TRUE
    /\ check_at_runtime = FALSE
    /\ heap = InitialHeap
    /\ result = NoResult
    /\ calls = 0
    /\ invoked = 0
    /\ last_call = "none"

ApplyGetBaseClassNames ==
    /\ pc = "start"
    /\ names' = GetBaseClassNames(Frame(pre, bases))
    /\ pc' = "names"
    /\ UNCHANGED <<pre, bases, components, builtins_is_dict, resolved, method,
                   check_signature, check_at_runtime, heap, result, calls, invoked,
                   last_call>>

NextNames == ApplyGetBaseClassNames

SpecNames == InitNames /\ [][NextNames]_vars

(***************************************************************************)
(* _get_base_class applied to dotted paths.                                *)
(***************************************************************************)
InitResolve ==
    /\ pc = "start"
    /\ pre = <<>>
    /\ bases = <<>>
    /\ names = <<>>
    /\ components \in SeqsUpTo(PathNames, MaxComponents) \ {<<>>}
    /\ builtins_is_dict \in BOOLEAN
    /\ resolved = Missing
    /\ method = NoMethod
    /\ check_signature = TRUE
    /\ check_at_runtime = FALSE
    /\ heap = InitialHeap
    /\ result = NoResult
    /\ calls = 0
    /\ invoked = 0
    /\ last_call = "none"

ApplyGetBaseClass ==
    /\ pc = "start"
    /\ resolved' = GetBaseClass(components, builtins_is_dict)
    /\ pc' = "resolved"
    /\ UNCHANGED <<pre, bases, names, components, builtins_is_dict, method,
                   check_signature, check_at_runtime, heap, result, calls, invoked,
                   last_call>>

NextResolve == ApplyGetBaseClass

SpecResolve == InitResolve /\ [][NextResolve]_vars

(***************************************************************************)
(* Decoration of a method in a class body.                                 *)
(***************************************************************************)
Init ==
    /\ pc = "start"
    /\ pre \in SeqsUpTo(ModuleStatements, MaxPre)
    /\ bases \in SeqsUpTo(ModuleBases, MaxBases)
    /\ names = <<>>
    /\ components = <<>>
    /\ builtins_is_dict = TRUE
    /\ resolved = Missing
    /\ method \in Methods
    /\ check_signature \in BOOLEAN
    /\ check_at_runtime \in BOOLEAN
    /\ heap = InitialHeap
    /\ result = NoResult
    /\ calls = 0
    /\ invoked = 0
    /\ last_call = "none"

\* @overrides / @overrides(check_signature=..., check_at_runtime=...) applied
\* to the method while the class body runs.
Decorate ==
    /\ pc = "start"
    /\ LET r == Overrides(method, check_signature, check_at_runtime,
                          Frame(pre, bases), builtins_is_dict, heap)
       IN  /\ result' = r
           /\ method' = [method EXCEPT !.override = TRUE, !.doc = r.method_doc]
    /\ pc' = "decorated"
    /\ UNCHANGED <<pre, bases, names, components, builtins_is_dict, resolved,
                   check_signature, check_at_runtime, heap, calls, invoked, last_call>>

Next == Decorate

Spec == Init /\ [][Next]_vars

(***************************************************************************)
(* Calls of the returned callable after the class was built, while the     *)
(* program seals or replaces the base method.                              *)
(***************************************************************************)
InitRuntime ==
    /\ pc = "start"
    /\ pre = <<>>
    /\ bases \in SeqsUpTo(ModuleBases, MaxBases)
    /\ names = <<>>
    /\ components = <<>>
    /\ builtins_is_dict = TRUE
    /\ resolved = Missing
    /\ method \in Methods
    /\ check_signature \in BOOLEAN
    /\ check_at_runtime \in BOOLEAN
    /\ heap = InitialHeap
    /\ result = NoResult
    /\ calls = 0
    /\ invoked = 0
    /\ last_call = "none"

TargetSlot == GetAttr(result.super_class, method.name)

\* S().m(...) through the callable the decorator returned.
CallReturned ==
    /\ pc = "decorated"
    /\ result.status = "returned"
    /\ calls < MaxCalls
    /\ calls' = calls + 1
    /\ IF result.callable = "wrapper"
       THEN LET c == WrapperCall(method, result.super_class, check_signature, heap)
            IN  /\ last_call' = (IF c.raised = "none" THEN "ok" ELSE c.raised)
                /\ invoked' = (IF c.ran THEN invoked + 1 ELSE invoked)
                /\ method' = [method EXCEPT !.doc = c.doc]
       ELSE /\ last_call' = "ok"
            /\ invoked' = invoked + 1
            /\ method' = method
    /\ UNCHANGED <<pc, pre, bases, names, components, builtins_is_dict, resolved,
                   check_signature, check_at_runtime, heap, result>>

\* B.m = final(B.m): the base method is sealed after the class was built.
SealBase ==
    /\ pc = "decorated"
    /\ result.status = "returned"
    /\ ~heap[TargetSlot].final
    /\ heap' = [heap EXCEPT ![TargetSlot].final = TRUE]
    /\ UNCHANGED <<pc, pre, bases, names, components, builtins_is_dict, resolved,
                   method, check_signature, check_at_runtime, result, calls, invoked,
                   last_call>>

\* B.m = <another function>: the base method is replaced by a function that is
\* not sealed and has another signature.
PatchBase ==
    /\ pc = "decorated"
    /\ result.status = "returned"
    /\ \E s \in {Sig(1, 0), Sig(0, 0)} :
          /\ (s # heap[TargetSlot].sig \/ heap[TargetSlot].final)
          /\ heap' = [heap EXCEPT ![TargetSlot] =
                         [final |-> FALSE, doc |-> DocNone, property |-> FALSE,
                          sig |-> s]]
    /\ UNCHANGED <<pc, pre, bases, names, components, builtins_is_dict, resolved,
                   method, check_signature, check_at_runtime, result, calls, invoked,
                   last_call>>

NextRuntime == Decorate \/ CallReturned \/ SealBase \/ PatchBase

SpecRuntime == InitRuntime /\ [][NextRuntime]_vars

(***************************************************************************)
(* Properties.                                                             *)
(***************************************************************************)
FinalError == "TypeError: is finalized"
SignatureError == "TypeError: signature"
NoSuperError == "TypeError: No super class method found"

\* The object a written base expression evaluates to when Python runs the
\* class statement (every attribute of the expression exists).
RECURSIVE EvalAttrs(_, _)
EvalAttrs(obj, rest) ==
    IF rest = <<>> THEN obj ELSE EvalAttrs(GetAttr(obj, Head(rest)), Tail(rest))

EvalBase(b) == EvalAttrs(Globals(b.path[1]), Tail(b.path))

\* The instructions of the class statement, and the identifiers they load.
ClassLoads ==
    {ClassStatement(bases)[k].argval : k \in
        {j \in 1..Len(ClassStatement(bases)) :
            ClassStatement(bases)[j].opname \in
                {"LOAD_NAME", "LOAD_GLOBAL", "LOAD_FAST", "LOAD_DEREF", "LOAD_ATTR"}}}

\* The identifiers loaded by name (not as attributes) anywhere in the frame.
FrameNameLoads ==
    LET code == Frame(pre, bases).f_code
    IN  {code[k].argval : k \in
            {j \in 1..Len(code) :
                code[j].opname \in {"LOAD_NAME", "LOAD_GLOBAL", "LOAD_FAST", "LOAD_DEREF"}}}

\* C1: decorating a method in a class none of whose written bases exposes an
\* attribute of the method's name always fails with "No super class method
\* found", whatever the flags and whatever statements precede the class
\* statement (a class with no bases included).
C1_NoBaseExposesFails ==
    (/\ pc = "decorated"
     /\ \A k \in 1..Len(bases) : ~HasAttr(EvalBase(bases[k]), method.name))
        => result.status = NoSuperError

\* C2: without check_at_runtime, a sealed override target makes the decoration
\* fail with the finalization error, for every check_signature and every
\* verdict of the signature validator, which is not even called.
C2_FinalBeforeSignature ==
    (/\ pc = "decorated"
     /\ ~check_at_runtime
     /\ result.super_class # Missing
     /\ heap[GetAttr(result.super_class, method.name)].final)
        => (result.status = FinalError /\ ~result.validator_called)

C2_Witness ==
    /\ pc = "decorated"
    /\ ~check_at_runtime
    /\ check_signature
    /\ method.name = nM
    /\ result.super_class = "F"
    /\ ~EnsureSignatureIsCompatible(heap["F.m"].sig, method.sig, FALSE)
    /\ result.status = FinalError

\* C3: the override target is the first resolved base, in the order the
\* resolver returned them, that has an attribute of the method's name; the
\* bases before it lack the attribute, and the outcome of the decoration is
\* the one that class alone gives.
C3_FirstBaseWithAttribute ==
    LET got == GetBaseClasses(Frame(pre, bases), builtins_is_dict)
        having == {k \in 1..Len(got.classes) : HasAttr(got.classes[k], method.name)}
    IN  (pc = "decorated" /\ got.raised = "none" /\ having # {}) =>
            \E i \in having :
                /\ \A j \in 1..(i - 1) : j \notin having
                /\ result.super_class = got.classes[i]
                /\ LET sm == heap[GetAttr(got.classes[i], method.name)]
                   IN  result.status =
                          IF check_at_runtime THEN "returned"
                          ELSE IF sm.final THEN FinalError
                          ELSE IF /\ check_signature
                                  /\ ~StartsWithDunder(method.name)
                                  /\ ~sm.property
                                  /\ ~EnsureSignatureIsCompatible(sm.sig, method.sig, FALSE)
                               THEN SignatureError
                          ELSE "returned"

C3_Witness ==
    /\ pc = "decorated"
    /\ pre = <<>>
    /\ bases = <<BaseExpr("LOAD_NAME", <<nA>>), BaseExpr("LOAD_NAME", <<nB>>)>>
    /\ method.name = nM
    /\ ~check_at_runtime
    /\ result.super_class = "B"
    /\ result.status = "returned"

\* The conditions under which a call of the wrapper must fail, read from the
\* heap as it is when the call is made.
C4_MustFail ==
    LET sm == heap[TargetSlot]
    IN  \/ sm.final
        \/ /\ check_signature
           /\ ~StartsWithDunder(method.name)
           /\ ~sm.property
           /\ ~EnsureSignatureIsCompatible(sm.sig, method.sig, FALSE)

C4_NeverAtDecoration ==
    (pc = "decorated" /\ check_at_runtime)
        => result.status \notin {FinalError, SignatureError}

C4_CallStep ==
    (calls' = calls + 1 /\ result.callable = "wrapper") =>
        IF C4_MustFail
        THEN last_call' \in {FinalError, SignatureError} /\ invoked' = invoked
        ELSE last_call' = "ok" /\ invoked' = invoked + 1

\* C4: with check_at_runtime the finalization and signature failures are never
\* raised by the decoration; every call of the wrapper checks the base method
\* as it is at that call, fails when it is sealed or incompatible then, and
\* does not run the real method in a failing call.
C4_RuntimeChecksEveryCall == []C4_NeverAtDecoration /\ [][C4_CallStep]_vars

C4_Witness ==
    /\ check_at_runtime
    /\ calls = MaxCalls
    /\ invoked = 0
    /\ last_call = FinalError
    /\ ~InitialHeap[TargetSlot].final

\* C5: after a successful decoration, in either mode, the returned callable's
\* __doc__ is the method's own docstring when it had a non-empty one and the
\* target's docstring otherwise.
C5_ReturnedCarriesDoc ==
    [][(pc = "start" /\ pc' = "decorated" /\ result'.status = "returned") =>
          result'.doc = IF ~Falsy(method.doc) THEN method.doc
                        ELSE heap[GetAttr(result'.super_class, method.name)].doc]_vars

\* C6: the paths returned by _get_base_class_names are built only from the
\* name and attribute loads of the class statement, and a class statement
\* without bases yields the empty list.
C6_OnlyClassStatementLoads ==
    pc = "names" =>
        /\ \A j \in 1..Len(names) : \A k \in 1..Len(names[j]) : names[j][k] \in ClassLoads
        /\ (bases = <<>> => names = <<>>)

\* The value _get_base_class must return: each segment after the first is
\* followed when the object reached so far has it and skipped otherwise.
C7_Expected ==
    LET at[k \in 1..Len(components)] ==
            IF k = 1 THEN LookupFirst(components[1], builtins_is_dict)
            ELSE IF HasAttr(at[k - 1], components[k])
                 THEN GetAttr(at[k - 1], components[k])
                 ELSE at[k - 1]
    IN  at[Len(components)]

\* C7: once segment 0 has resolved, _get_base_class follows every later segment
\* the current object has, skips every segment it lacks keeping the current
\* object, and raises nothing.
C7_BestEffortResolution ==
    (pc = "resolved" /\ LookupFirst(components[1], builtins_is_dict) \notin Errors)
        => (resolved \notin Errors /\ resolved = C7_Expected)

C7_Witness ==
    /\ pc = "resolved"
    /\ components = <<nPkg, nX, nB>>
    /\ resolved = "B"

\* A name that both starts and ends with a double underscore.
IsDunderBothEnds(name) ==
    /\ StartsWithDunder(name)
    /\ Len(name) >= 4
    /\ name[Len(name) - 1] = "_"
    /\ name[Len(name)] = "_"

C8_ValidationRan ==
    /\ pc = "decorated"
    /\ ~check_at_runtime
    /\ result.super_class # Missing
    /\ ~heap[GetAttr(result.super_class, method.name)].final

\* C8 as stated: for a non-final target the signature validator is called
\* exactly when check_signature is set, the name does not both start and end
\* with a double underscore, and the target is not a property.
C8_ValidatorIffNotDunderBothEnds ==
    C8_ValidationRan =>
        (result.validator_called <=>
            /\ check_signature
            /\ ~IsDunderBothEnds(method.name)
            /\ ~heap[GetAttr(result.super_class, method.name)].property)

\* C8 amended: for a non-final target the signature validator is called
\* exactly when check_signature is set, the name does not start with a double
\* underscore, and the target is not a property.
C8_ValidatorIffNotStartsWithDunder ==
    C8_ValidationRan =>
        (result.validator_called <=>
            /\ check_signature
            /\ ~(Len(method.name) >= 2 /\ SubSeq(method.name, 1, 2) = <<"_", "_">>)
            /\ ~heap[GetAttr(result.super_class, method.name)].property)

C8_Witness ==
    /\ C8_ValidationRan
    /\ check_signature
    /\ method.name = nPriv
    /\ result.super_class = "B"
    /\ ~result.validator_called
    /\ result.status = "returned"

\* C9: every load of a bare identifier, local, global or free, starts a path
\* whose first segment is that identifier, so every written base yields a path
\* that starts with its first identifier.
C9_EveryLoadStartsAPath ==
    pc = "names" =>
        \A k \in 1..Len(bases) :
            \E j \in 1..Len(names) : names[j][1] = bases[k].path[1]

\* C10: every returned path starts with an identifier that was loaded by name;
\* attribute loads with no open path are dropped.
C10_PathsStartWithNameLoad ==
    pc = "names" => \A j \in 1..Len(names) : names[j][1] \in FrameNameLoads

====
